---- MODULE Spec2Model ----
(***************************************************************************)
(* Block/connector data model and graph execution engine of the backend.   *)
(*                                                                         *)
(* The state is the in-memory project (src/backend/main.py:113) together   *)
(* with the locals of one call of execute_graph (main.py:32-106).  The     *)
(* Block and Project classes (blocks.py, project.py) and the Logic and API *)
(* block variants are not part of the source tree; their operations are    *)
(* modelled from sections 3 and 4 of the specification.                    *)
(*                                                                         *)
(* Values are sequences of tokens: "Hello " + "World" is                   *)
(* <<"Hello ", "World">>, None / the empty string is <<>>.  An optional    *)
(* connector (an input binding) is a sequence of length at most one.       *)
(*                                                                         *)
(* Two specifications share the operations.  Spec is the editor: React     *)
(* blocks added, removed, wired port to port and run.  SpecGreeting is the *)
(* greeting scenario of the demo: a UI block, a Logic block, an API block  *)
(* and a display block, wired along the demo's three edges, with the       *)
(* values the demo seeds.  Requests are served one at a time in both.      *)
(***************************************************************************)
EXTENDS Integers, Sequences, FiniteSets, TLC

\* ------------------------------------------------------------------ bounds
\* The most connectors the outgoing lists of a project hold together (the
\* edge with the modifier may come on top of them).
MaxConnectors == 2
\* The longest start list handed to execute_graph.
MaxStarts == 2

\* ------------------------------------------------------- the block universe
\* The block objects, named after the demo's variables (main.py:927-942);
\* form_block is one more ReactBlock, as POST /api/block/add creates it
\* (main.py:487-488).  The editor works on three ReactBlocks, the greeting
\* scenario on the demo's four blocks.
EditorBlocks == {"input_block", "display_block", "form_block"}
PortBlocks == {"input_block", "display_block"}
GreetingBlocks == {"input_block", "logic_block", "api_block", "display_block"}

block_type(b) ==
    CASE b = "input_block" -> "REACT"
      [] b = "display_block" -> "REACT"
      [] b = "form_block" -> "REACT"
      [] b = "logic_block" -> "LOGIC"
      [] b = "api_block" -> "API"

name(b) ==
    CASE b = "input_block" -> "User Name Input"
      [] b = "logic_block" -> "Greeter"
      [] b = "api_block" -> "Echo API"
      [] b = "display_block" -> "Result Display"
      [] b = "form_block" -> "New Block"

\* The output port names, in the order a dict of ports lists them.
AllOutputKeys == <<"onTextEntered", "user_input", "result", "response_json">>

\* ReactBlock.__init__: register_input("title", default "Interactive Form").
ReactInputs == "title" :> <<"Interactive Form">>
\* ReactBlock.__init__: register_output("onTextEntered").
ReactOutputs == "onTextEntered" :> <<>>
\* LogicBlock(name, "add"): two operands and one result.
LogicInputs == ("val_a" :> <<>>) @@ ("val_b" :> <<>>)
LogicOutputs == "result" :> <<>>
\* APIBlock(name, "custom"): the request parameters and the decoded response
\* (the url, body, headers and status_code ports of the custom schema are
\* wired and fetched like these two).
ApiInputs == "params" :> <<>>
ApiOutputs == "response_json" :> <<>>

InitInputs(b) ==
    CASE block_type(b) = "REACT" -> ReactInputs
      [] block_type(b) = "LOGIC" -> LogicInputs
      [] block_type(b) = "API" -> ApiInputs

InitOutputs(b) ==
    CASE block_type(b) = "REACT" -> ReactOutputs
      [] block_type(b) = "LOGIC" -> LogicOutputs
      [] block_type(b) = "API" -> ApiOutputs

\* The data type each constructor registers its ports with:
\* register_input("title", data_type="string", ...) and
\* register_output("onTextEntered", data_type="any"), react_block.py:118-119.
InitInputMeta(b) ==
    [k \in DOMAIN InitInputs(b) |->
        IF block_type(b) = "REACT" /\ k = "title" THEN "string" ELSE "any"]

InitOutputMeta(b) == [k \in DOMAIN InitOutputs(b) |-> "any"]

\* ---------------------------------------------------------------- helpers
NoConnector == <<>>
Bound(oc) == oc # <<>>

Range(s) == {s[i] : i \in 1..Len(s)}

RECURSIVE Flatten(_)
Flatten(ss) == IF ss = <<>> THEN <<>> ELSE Head(ss) \o Flatten(Tail(ss))

RECURSIVE RemoveFirst(_, _)
\* list.remove(x): drops the first element equal to x.
RemoveFirst(s, x) ==
    IF s = <<>> THEN <<>>
    ELSE IF Head(s) = x THEN Tail(s)
    ELSE <<Head(s)>> \o RemoveFirst(Tail(s), x)

SeqsUpTo(S, n) == UNION {[1..k -> S] : k \in 1..n}

Perms(S) == {s \in [1..Cardinality(S) -> S] : Range(s) = S}

\* The block objects a project value speaks of.
Universe(p) == DOMAIN p.inputs

\* The keys of a dict in insertion order.
OutputKeys(p, b) == SelectSeq(AllOutputKeys, LAMBDA k : k \in DOMAIN p.output_connectors[b])

\* for connectors in block.output_connectors.values(): for connector in connectors
OutgoingOf(p, b) ==
    Flatten([i \in 1..Len(OutputKeys(p, b)) |->
                p.output_connectors[b][OutputKeys(p, b)[i]]])

RECURSIVE SumLen(_, _)
SumLen(p, S) ==
    IF S = {} THEN 0
    ELSE LET b == CHOOSE x \in S : TRUE
         IN Len(OutgoingOf(p, b)) + SumLen(p, S \ {b})

\* The number of connectors in the outgoing lists of the project.
ConnectorCount(p) == SumLen(p, Universe(p))

\* --------------------------------------------------- Block and Project API
\* Project(name): no blocks.  Every block object of the universe U is as its
\* constructor leaves it.
EmptyProject(U) ==
    [blocks |-> {},
     inputs |-> [b \in U |-> InitInputs(b)],
     outputs |-> [b \in U |-> InitOutputs(b)],
     input_meta |-> [b \in U |-> InitInputMeta(b)],
     output_meta |-> [b \in U |-> InitOutputMeta(b)],
     hidden_inputs |-> [b \in U |-> {}],
     hidden_outputs |-> [b \in U |-> {}],
     input_connectors |-> [b \in U |-> [k \in DOMAIN InitInputs(b) |-> NoConnector]],
     output_connectors |-> [b \in U |-> [k \in DOMAIN InitOutputs(b) |-> <<>>]]]

\* Project.add_block(block): a newly constructed block enters the container.
Project_add_block(p, b) == [p EXCEPT !.blocks = @ \cup {b}]

Connector(s, ok, t, ik, m) ==
    [source_block |-> s, source_output_key |-> ok,
     target_block |-> t, target_input_key |-> ik, modifier |-> m]

\* Block.connect validates both port names.
ConnectValid(p, s, ok, t, ik) ==
    ok \in DOMAIN p.outputs[s] /\ ik \in DOMAIN p.inputs[t]

\* Block.connect(source_output, target, target_input, modifier): appends the
\* connector to the source's outgoing list and binds it as the target's
\* incoming connector for that key, replacing a prior binding.  An unknown
\* port raises ValueError and changes nothing.
Block_connect(p, s, ok, t, ik, m) ==
    IF ~ConnectValid(p, s, ok, t, ik) THEN p
    ELSE [p EXCEPT
            !.output_connectors[s][ok] = Append(@, Connector(s, ok, t, ik, m)),
            !.input_connectors[t][ik] = <<Connector(s, ok, t, ik, m)>>]

\* Block.set_input(key, value) and the direct assignment of main.py:933.
Block_set_input(p, b, k, v) ==
    IF k \in DOMAIN p.inputs[b] THEN [p EXCEPT !.inputs[b][k] = v] ELSE p

\* Block.set_user_input(value): the value the rendering surface reports is
\* held in the block's output.
Block_set_user_input(p, b, v) ==
    [p EXCEPT !.outputs[b]["onTextEntered"] = v]

\* The connectors of list cs that do not lead to block b.
NotInto(cs, b) == SelectSeq(cs, LAMBDA c : c.target_block # b)

\* The binding oc, unless it comes from block b.
NotFrom(oc, b) == IF Bound(oc) /\ oc[1].source_block = b THEN NoConnector ELSE oc

\* Project.remove_block(block_id): the block leaves the container and every
\* connector that references it is excised, in both directions.  The block
\* object is gone; a block added later under that name is a new object.
Project_remove_block(p, b) ==
    [blocks |-> p.blocks \ {b},
     inputs |-> [p.inputs EXCEPT ![b] = InitInputs(b)],
     outputs |-> [p.outputs EXCEPT ![b] = InitOutputs(b)],
     input_meta |-> [p.input_meta EXCEPT ![b] = InitInputMeta(b)],
     output_meta |-> [p.output_meta EXCEPT ![b] = InitOutputMeta(b)],
     hidden_inputs |-> [p.hidden_inputs EXCEPT ![b] = {}],
     hidden_outputs |-> [p.hidden_outputs EXCEPT ![b] = {}],
     input_connectors |->
        [x \in Universe(p) |->
            IF x = b THEN [k \in DOMAIN InitInputs(b) |-> NoConnector]
            ELSE [k \in DOMAIN p.input_connectors[x] |->
                    NotFrom(p.input_connectors[x][k], b)]],
     output_connectors |->
        [x \in Universe(p) |->
            IF x = b THEN [k \in DOMAIN InitOutputs(b) |-> <<>>]
            ELSE [k \in DOMAIN p.output_connectors[x] |->
                    NotInto(p.output_connectors[x][k], b)]]]

RECURSIVE RemoveEach(_, _)
\* for conn in to_remove: connectors.remove(conn), main.py:617-618.
RemoveEach(connectors, to_remove) ==
    IF to_remove = <<>> THEN connectors
    ELSE RemoveEach(RemoveFirst(connectors, Head(to_remove)), Tail(to_remove))

\* to_remove, main.py:610-615: the connectors of the source's list for that
\* output that lead to the target's input.
ToRemove(p, s, ok, t, ik) ==
    IF ok \in DOMAIN p.output_connectors[s]
    THEN SelectSeq(p.output_connectors[s][ok],
                   LAMBDA c : c.target_block = t /\ c.target_input_key = ik)
    ELSE <<>>

\* main.py:609-623: every matching connector is removed from the source's
\* list and, for each, the target's binding for that key is set to None.
Disconnect(p, s, ok, t, ik) ==
    IF ToRemove(p, s, ok, t, ik) = <<>> THEN p
    ELSE [p EXCEPT
            !.output_connectors[s][ok] = RemoveEach(@, ToRemove(p, s, ok, t, ik)),
            !.input_connectors[t] =
                [k \in DOMAIN @ \cup {ik} |-> IF k = ik THEN NoConnector ELSE @[k]]]

\* add_connection leaving the binding of an input port that is already bound
\* as it is: the new connector only enters the source's list.
AddConnectionKeepFirst(p, s, ok, t, ik) ==
    IF s \notin p.blocks \/ t \notin p.blocks THEN p
    ELSE IF ConnectValid(p, s, ok, t, ik) /\ Bound(p.input_connectors[t][ik])
    THEN [p EXCEPT !.output_connectors[s][ok] =
                       Append(@, Connector(s, ok, t, ik, "none"))]
    ELSE Block_connect(p, s, ok, t, ik, "none")

\* add_connection, main.py:577-589: 404 when a block is missing, 400 when
\* connect raises ValueError, otherwise the connected project.
AddConnection(p, s, ok, t, ik) ==
    IF s \notin p.blocks \/ t \notin p.blocks THEN p
    ELSE Block_connect(p, s, ok, t, ik, "none")

\* remove_connection, main.py:603-625.
RemoveConnection(p, s, ok, t, ik) ==
    IF s \notin p.blocks \/ t \notin p.blocks THEN p
    ELSE Disconnect(p, s, ok, t, ik)

\* ------------------------------------------------------- update_ports
\* DEFAULT_INPUTS and DEFAULT_OUTPUTS, react_block.py:133-134.
DEFAULT_INPUTS == {"title"}
DEFAULT_OUTPUTS == {"onTextEntered"}

\* An item of the lists the frontend sends: {'key': ..., 'data_type': ...}.
Item(key, data_type) == [key |-> key, data_type |-> data_type]

\* set(item['key'] for item in inputs_list), react_block.py:137, 154.
Keys(list) == {list[i].key : i \in 1..Len(list)}

\* The data type the loop of react_block.py:149-152 registers an absent key
\* with: that of the first item of the list with that key.
DataTypeOf(list, k) ==
    list[CHOOSE i \in 1..Len(list) :
            /\ list[i].key = k
            /\ \A j \in 1..(i - 1) : list[j].key # k].data_type

\* input_meta / output_meta after the call: the entries of the removed keys
\* are deleted, an absent key of the list gets the item's data type.
RegisteredMeta(old, list, keys, removed_keys) ==
    [k \in (DOMAIN old \ removed_keys) \cup keys |->
        IF k \in DOMAIN old \ removed_keys THEN old[k] ELSE DataTypeOf(list, k)]

\* Block.register_input / register_output on an absent key: the port exists
\* with no value and no connector.
Registered(old, keys, removed_keys, fresh) ==
    [k \in (DOMAIN old \ removed_keys) \cup keys |->
        IF k \in DOMAIN old \ removed_keys THEN old[k] ELSE fresh]

\* update_ports removing every port that is not in the new list, the default
\* ones included.
ReactBlock_update_ports_all(p, b, inputs_list, outputs_list) ==
    LET new_input_keys == Keys(inputs_list)
        keys_to_remove == DOMAIN p.inputs[b] \ new_input_keys
        new_output_keys == Keys(outputs_list)
        keys_to_remove_outputs == DOMAIN p.outputs[b] \ new_output_keys
    IN [p EXCEPT
          !.inputs[b] = Registered(@, new_input_keys, keys_to_remove, <<>>),
          !.input_meta[b] =
              RegisteredMeta(@, inputs_list, new_input_keys, keys_to_remove),
          !.input_connectors[b] =
              Registered(@, new_input_keys, keys_to_remove, NoConnector),
          !.outputs[b] = Registered(@, new_output_keys, keys_to_remove_outputs, <<>>),
          !.output_meta[b] =
              RegisteredMeta(@, outputs_list, new_output_keys, keys_to_remove_outputs),
          !.output_connectors[b] =
              Registered(@, new_output_keys, keys_to_remove_outputs, <<>>)]

\* update_ports registering every key of the new list anew, the ones that
\* are present included.
ReactBlock_update_ports_anew(p, b, inputs_list, outputs_list) ==
    LET new_input_keys == Keys(inputs_list)
        keys_to_remove == (DOMAIN p.inputs[b] \ new_input_keys) \ DEFAULT_INPUTS
        new_output_keys == Keys(outputs_list)
        keys_to_remove_outputs ==
            (DOMAIN p.outputs[b] \ new_output_keys) \ DEFAULT_OUTPUTS
    IN [p EXCEPT
          !.inputs[b] =
              Registered(@, new_input_keys, keys_to_remove \cup new_input_keys, <<>>),
          !.input_meta[b] =
              RegisteredMeta(@, inputs_list, new_input_keys,
                             keys_to_remove \cup new_input_keys),
          !.input_connectors[b] =
              Registered(@, new_input_keys, keys_to_remove \cup new_input_keys,
                         NoConnector),
          !.outputs[b] =
              Registered(@, new_output_keys,
                         keys_to_remove_outputs \cup new_output_keys, <<>>),
          !.output_meta[b] =
              RegisteredMeta(@, outputs_list, new_output_keys,
                             keys_to_remove_outputs \cup new_output_keys),
          !.output_connectors[b] =
              Registered(@, new_output_keys,
                         keys_to_remove_outputs \cup new_output_keys, <<>>)]

\* update_ports removing the present keys that are in the new list instead
\* of the ones that are not, and registering the keys that were absent.
ReactBlock_update_ports_flip(p, b, inputs_list, outputs_list) ==
    LET new_input_keys == Keys(inputs_list)
        keys_to_remove == (DOMAIN p.inputs[b] \cap new_input_keys) \ DEFAULT_INPUTS
        added_inputs == new_input_keys \ DOMAIN p.inputs[b]
        new_output_keys == Keys(outputs_list)
        keys_to_remove_outputs ==
            (DOMAIN p.outputs[b] \cap new_output_keys) \ DEFAULT_OUTPUTS
        added_outputs == new_output_keys \ DOMAIN p.outputs[b]
    IN [p EXCEPT
          !.inputs[b] = Registered(@, added_inputs, keys_to_remove, <<>>),
          !.input_meta[b] =
              RegisteredMeta(@, inputs_list, added_inputs, keys_to_remove),
          !.input_connectors[b] =
              Registered(@, added_inputs, keys_to_remove, NoConnector),
          !.outputs[b] = Registered(@, added_outputs, keys_to_remove_outputs, <<>>),
          !.output_meta[b] =
              RegisteredMeta(@, outputs_list, added_outputs, keys_to_remove_outputs),
          !.output_connectors[b] =
              Registered(@, added_outputs, keys_to_remove_outputs, <<>>)]

\* ReactBlock.update_ports, react_block.py:127-167.  The lists are the
\* items the frontend sends.
ReactBlock_update_ports(p, b, inputs_list, outputs_list) ==
    LET new_input_keys == Keys(inputs_list)
        keys_to_remove == (DOMAIN p.inputs[b] \ new_input_keys) \ DEFAULT_INPUTS
        added_inputs == new_input_keys \ (DOMAIN p.inputs[b] \ keys_to_remove)
        new_output_keys == Keys(outputs_list)
        keys_to_remove_outputs ==
            (DOMAIN p.outputs[b] \ new_output_keys) \ DEFAULT_OUTPUTS
        added_outputs == new_output_keys \ (DOMAIN p.outputs[b] \ keys_to_remove_outputs)
    IN [p EXCEPT
          !.inputs[b] = Registered(@, added_inputs, keys_to_remove, <<>>),
          !.input_meta[b] =
              RegisteredMeta(@, inputs_list, added_inputs, keys_to_remove),
          !.input_connectors[b] =
              Registered(@, added_inputs, keys_to_remove, NoConnector),
          !.outputs[b] = Registered(@, added_outputs, keys_to_remove_outputs, <<>>),
          !.output_meta[b] =
              RegisteredMeta(@, outputs_list, added_outputs, keys_to_remove_outputs),
          !.output_connectors[b] =
              Registered(@, added_outputs, keys_to_remove_outputs, <<>>)]

\* ------------------------------------------------------ block behaviour
\* to_params, main.py:953-954: wraps the value as {"message": data}.
to_params(data) == <<"{message:">> \o data \o <<"}">>

\* The modifier applied at the hand-off and again to what it returned.
ApplyModifierTwice(m, v) == IF m = "to_params" THEN to_params(to_params(v)) ELSE v

ApplyModifier(m, v) == IF m = "to_params" THEN to_params(v) ELSE v

\* The value that crosses connector c: the current value of its source
\* output port, through the modifier if there is one.
Carried(p, c) ==
    IF c.source_output_key \in DOMAIN p.outputs[c.source_block]
    THEN ApplyModifier(c.modifier, p.outputs[c.source_block][c.source_output_key])
    ELSE <<>>

\* Block b has a binding whose source port is no longer among the source's
\* outputs: reading it is a missing key.
MissingSource(p, b) ==
    \E k \in DOMAIN p.input_connectors[b] :
        /\ Bound(p.input_connectors[b][k])
        /\ p.input_connectors[b][k][1].source_output_key
             \notin DOMAIN p.outputs[p.input_connectors[b][k][1].source_block]

\* fetch_inputs assigning every port: a port without a connector gets None.
Block_fetch_inputs_reset(p, b) ==
    [p EXCEPT !.inputs[b] =
        [k \in DOMAIN @ |->
            IF k \in DOMAIN p.input_connectors[b] /\ Bound(p.input_connectors[b][k])
            THEN Carried(p, p.input_connectors[b][k][1])
            ELSE <<>>]]

\* Block.fetch_inputs(): every input port with a bound incoming connector is
\* given the value that crosses it; the other ports keep their value.
Block_fetch_inputs(p, b) ==
    [p EXCEPT !.inputs[b] =
        [k \in DOMAIN @ |->
            IF k \in DOMAIN p.input_connectors[b] /\ Bound(p.input_connectors[b][k])
            THEN Carried(p, p.input_connectors[b][k][1])
            ELSE @[k]]]

\* What the external endpoint of an API block can answer: a decoded body, or
\* a failure, which the block captures in its own output.
ApiFailure == <<"error">>
ApiResponses == {<<"response">>, ApiFailure}
Outcomes(b) == IF block_type(b) = "API" THEN ApiResponses ELSE {<<>>}

\* ReactBlock.execute, react_block.py:121-125: nothing happens on the server.
ReactBlock_execute(p, b) == p

\* LogicBlock.execute with operation "add": result = val_a + val_b.
LogicBlock_execute(p, b) ==
    [p EXCEPT !.outputs[b]["result"] = p.inputs[b]["val_a"] \o p.inputs[b]["val_b"]]

\* APIBlock.execute: one external call; its answer, or the captured failure,
\* becomes the block's output.  It does not raise.
APIBlock_execute(p, b, answer) ==
    [p EXCEPT !.outputs[b]["response_json"] = answer]

Block_execute(p, b, answer) ==
    CASE block_type(b) = "REACT" -> ReactBlock_execute(p, b)
      [] block_type(b) = "LOGIC" -> LogicBlock_execute(p, b)
      [] block_type(b) = "API" -> APIBlock_execute(p, b, answer)

\* ------------------------------------------------------- execute_graph
\* The target blocks of block's connectors, in the order of main.py:46-48.
Targets(p, b) ==
    [i \in 1..Len(OutgoingOf(p, b)) |-> OutgoingOf(p, b)[i].target_block]

\* The depth-first loop without its test of the visited set.
DfsStepUnguarded(p, stack, all) ==
    LET block == stack[Len(stack)]
        rest == SubSeq(stack, 1, Len(stack) - 1)
    IN [work |-> rest \o Targets(p, block), all_blocks |-> all \cup {block}]

\* One iteration of the depth-first discovery loop, main.py:41-48.
DfsStep(p, stack, all) ==
    LET block == stack[Len(stack)]
        rest == SubSeq(stack, 1, Len(stack) - 1)
    IN IF block \in all THEN [work |-> rest, all_blocks |-> all]
       ELSE [work |-> rest \o Targets(p, block), all_blocks |-> all \cup {block}]

\* The breadth-first loop following only the first connector of a block.
BfsStepFirstOnly(p, queue, all) ==
    LET block == Head(queue)
        rest == Tail(queue)
    IN IF block \in all THEN [work |-> rest, all_blocks |-> all]
       ELSE [work |-> rest \o (IF Targets(p, block) = <<>> THEN <<>>
                                ELSE <<Head(Targets(p, block))>>),
             all_blocks |-> all \cup {block}]

\* One iteration of the breadth-first discovery loop, main.py:51-58.
BfsStep(p, queue, all) ==
    LET block == Head(queue)
        rest == Tail(queue)
    IN IF block \in all THEN [work |-> rest, all_blocks |-> all]
       ELSE [work |-> rest \o Targets(p, block), all_blocks |-> all \cup {block}]

\* Every iteration pops one entry, and entries are pushed only when a block
\* is first visited: the loop takes at most this many iterations.
DiscoveryBound(p, start_blocks) == Len(start_blocks) + ConnectorCount(p)

RECURSIVE Discover(_, _, _, _, _)
\* The discovery loop of main.py:39-58 run for at most `left` iterations; a
\* loop that is still busy then is reported as not terminated.
Discover(p, method, w, all, left) ==
    IF w = <<>> THEN [all_blocks |-> all, terminated |-> TRUE]
    ELSE IF left = 0 THEN [all_blocks |-> all, terminated |-> FALSE]
    ELSE LET st == IF method = "dfs" THEN DfsStep(p, w, all) ELSE BfsStep(p, w, all)
         IN Discover(p, method, st.work, st.all_blocks, left - 1)

Discovery(p, start_blocks, method) ==
    Discover(p, method, start_blocks, {}, DiscoveryBound(p, start_blocks))

\* graph[block], main.py:62-69: the targets of block's connectors that lie in
\* all_blocks, one entry per connector.
BuildGraph(p, all) ==
    [b \in all |-> SelectSeq(Targets(p, b), LAMBDA t : t \in all)]

CountIn(s, t) == Cardinality({i \in 1..Len(s) : s[i] = t})

RECURSIVE SumIn(_, _, _)
SumIn(g, S, t) ==
    IF S = {} THEN 0
    ELSE LET b == CHOOSE x \in S : TRUE
         IN CountIn(g[b], t) + SumIn(g, S \ {b}, t)

\* in_degree without the connectors that lead from a block to itself.
BuildInDegreeNoSelf(p, all) ==
    [t \in all |-> SumIn(BuildGraph(p, all), all \ {t}, t)]

\* in_degree, main.py:61-70: one count per connector into the block from a
\* block of all_blocks.
BuildInDegree(p, all) ==
    [t \in all |-> SumIn(BuildGraph(p, all), all, t)]

\* The ready queue without its test of the in-degree: every block starts ready.
InitiallyReadyAll(deg) == DOMAIN deg

\* The blocks the ready queue starts with, main.py:74.
InitiallyReady(deg) == {b \in DOMAIN deg : deg[b] = 0}

\* The test off by one: a neighbour is enqueued while one of its connectors is
\* still waiting.
IsReadyEarly(d) == d <= 1

\* if in_degree[neighbor] == 0, main.py:100.
IsReady(d) == d = 0

RECURSIVE PropagateFront(_, _, _)
\* The neighbour that becomes ready put at the front of the queue.
PropagateFront(neighbours, deg, ready) ==
    IF neighbours = <<>> THEN [in_degree |-> deg, ready_queue |-> ready]
    ELSE LET n == Head(neighbours)
             d == [deg EXCEPT ![n] = @ - 1]
         IN PropagateFront(Tail(neighbours), d,
                           IF IsReady(d[n]) THEN <<n>> \o ready ELSE ready)

RECURSIVE Propagate(_, _, _)
\* main.py:98-101: each neighbour's in-degree is decremented, and the
\* neighbour is enqueued when it reaches zero.
Propagate(neighbours, deg, ready) ==
    IF neighbours = <<>> THEN [in_degree |-> deg, ready_queue |-> ready]
    ELSE LET n == Head(neighbours)
             d == [deg EXCEPT ![n] = @ - 1]
         IN Propagate(Tail(neighbours), d,
                      IF IsReady(d[n]) THEN Append(ready, n) ELSE ready)

\* results[current_block.id] = {...}, main.py:91-95: a dict keeps one entry
\* per key, in the order of first insertion.
ResultsPut(res, entry) ==
    IF \E i \in 1..Len(res) : res[i].id = entry.id
    THEN [i \in 1..Len(res) |-> IF res[i].id = entry.id THEN entry ELSE res[i]]
    ELSE Append(res, entry)

\* The entry holding the outputs the block was constructed with instead of
\* the ones it has now.
ResultEntryStale(p, b) ==
    [id |-> b, name |-> name(b), type |-> block_type(b), outputs |-> InitOutputs(b)]

ResultEntry(p, b) ==
    [id |-> b, name |-> name(b), type |-> block_type(b), outputs |-> p.outputs[b]]

\* The engine looking at what the block produced: nothing is propagated from
\* a block whose output is a failure.
DownstreamUnlessFailed(p, g, b) ==
    IF \E k \in DOMAIN p.outputs[b] : p.outputs[b][k] = ApiFailure THEN <<>> ELSE g[b]

\* for neighbor in graph[current_block], main.py:98: the engine propagates to
\* the neighbours whatever the block's execute left in its outputs.
Downstream(p, g, b) == g[b]

\* One iteration of the running loop, main.py:79-101, on the run state
\* rs = [p, in_degree, graph, ready_queue, results, execution_order].
RunStep(rs, answer) ==
    LET current_block == Head(rs.ready_queue)
        fetched == Block_fetch_inputs(rs.p, current_block)
        executed == Block_execute(fetched, current_block, answer)
        prop == Propagate(Downstream(executed, rs.graph, current_block),
                          rs.in_degree, Tail(rs.ready_queue))
    IN [p |-> executed,
        in_degree |-> prop.in_degree,
        graph |-> rs.graph,
        ready_queue |-> prop.ready_queue,
        results |-> ResultsPut(rs.results, ResultEntry(executed, current_block)),
        execution_order |-> Append(rs.execution_order, name(current_block))]

\* The dict execute_graph returns, main.py:103-106.
Report(order, res) == [execution_order |-> order, block_results |-> res]

\* ------------------------------------------------------------- the state
VARIABLES
    current_project,  \* the project the endpoints work on (main.py:113)
    booted,           \* how the process came up: "no", "main", "served", "raised"
    pc,               \* where the call of execute_graph stands
    all_blocks,       \* the blocks discovered
    in_degree,
    graph,
    ready_queue,
    results,
    execution_order,
    start_blocks,     \* the list execute_graph was called with
    removed,          \* history: the block the latest edit removed while it
                      \* had an incoming and an outgoing connector, or "none"
    response          \* what the latest request was answered, "none" before
                      \* the first answer and while a run is in progress

vars == <<current_project, booted, pc, all_blocks, in_degree, graph,
          ready_queue, results, execution_order, start_blocks, removed,
          response>>

runVars == <<pc, all_blocks, in_degree, graph, ready_queue, results,
             execution_order, start_blocks>>

NoRun ==
    /\ pc = "idle"
    /\ all_blocks = {}
    /\ in_degree = <<>>
    /\ graph = <<>>
    /\ ready_queue = <<>>
    /\ results = <<>>
    /\ execution_order = <<>>
    /\ start_blocks = <<>>

Init ==
    /\ current_project = EmptyProject(EditorBlocks)
    /\ booted = "no"
    /\ removed = "none"
    /\ response = "none"
    /\ NoRun

InitPorts ==
    /\ current_project = EmptyProject(PortBlocks)
    /\ booted = "no"
    /\ removed = "none"
    /\ response = "none"
    /\ NoRun

InitGreeting ==
    /\ current_project = EmptyProject(GreetingBlocks)
    /\ booted = "no"
    /\ removed = "none"
    /\ response = "none"
    /\ NoRun

Serving == booted \in {"main", "served"} /\ pc = "idle"

\* ------------------------------------------------------------- the demo
World == <<"World">>
Hello == <<"Hello ">>

\* setup_demo_project, main.py:921-949: the four blocks, seeded and added.
DemoBlocksAdded ==
    LET seeded == Block_set_user_input(EmptyProject(GreetingBlocks), "input_block", World)
        operand == Block_set_input(seeded, "logic_block", "val_a", Hello)
    IN Project_add_block(
         Project_add_block(
           Project_add_block(
             Project_add_block(operand, "input_block"),
             "logic_block"),
           "api_block"),
         "display_block")

\* The three connect calls of setup_demo_project, main.py:951-957.
DemoConnects ==
    <<Connector("input_block", "user_input", "logic_block", "val_b", "none"),
      Connector("logic_block", "result", "api_block", "params", "to_params"),
      Connector("api_block", "response_json", "display_block", "display_data", "none")>>

RECURSIVE ConnectAll(_, _)
\* The connect calls in order; the first one that raises ends the function.
ConnectAll(p, cs) ==
    IF cs = <<>> THEN [raised |-> FALSE, proj |-> p]
    ELSE LET c == Head(cs)
         IN IF ConnectValid(p, c.source_block, c.source_output_key,
                            c.target_block, c.target_input_key)
            THEN ConnectAll(Block_connect(p, c.source_block, c.source_output_key,
                                          c.target_block, c.target_input_key,
                                          c.modifier),
                            Tail(cs))
            ELSE [raised |-> TRUE, proj |-> p]

setup_demo_project == ConnectAll(DemoBlocksAdded, DemoConnects)

\* ------------------------------------------------- stored workflows
\* The parameters of ReactBlock.__init__, react_block.py:112.
ReactBlockParams == {"name", "jsx_code", "css_code", "x", "y"}

\* A call of the constructor with these keyword arguments is accepted; with
\* any other keyword it raises TypeError.
ReactBlockAccepts(keywords) == keywords \subseteq ReactBlockParams

RECURSIVE WorkflowNodes(_, _, _)
\* for node in nodes, main.py:163-194.  A node is the id of a block; its
\* block_type is that of the id.  A REACT node is built by
\* ReactBlock(block_id=block_id, name=name), main.py:180, and seeded from
\* input_data, main.py:182-184; the other variants are built by classes that
\* take the id.  A constructor that raises ends the function.
WorkflowNodes(p, nodes, input_data) ==
    IF nodes = <<>> THEN [raised |-> FALSE, proj |-> p]
    ELSE LET b == Head(nodes)
             seeded == IF block_type(b) = "REACT" /\ b \in input_data
                       THEN Block_set_input(p, b, "user_input", World)
                       ELSE p
         IN IF block_type(b) = "REACT" /\ ~ReactBlockAccepts({"block_id", "name"})
            THEN [raised |-> TRUE, proj |-> p]
            ELSE WorkflowNodes(Project_add_block(seeded, b), Tail(nodes), input_data)

RECURSIVE WorkflowEdges(_, _)
\* for edge in edges, main.py:197-209: an edge is connected when both of its
\* blocks are in the project and is passed over otherwise; a connect that
\* raises ends the function.
WorkflowEdges(p, edges) ==
    IF edges = <<>> THEN [raised |-> FALSE, proj |-> p]
    ELSE LET edge == Head(edges)
         IN IF edge[1] \in p.blocks /\ edge[3] \in p.blocks
            THEN IF ConnectValid(p, edge[1], edge[2], edge[3], edge[4])
                 THEN WorkflowEdges(Block_connect(p, edge[1], edge[2], edge[3],
                                                  edge[4], "none"),
                                    Tail(edges))
                 ELSE [raised |-> TRUE, proj |-> p]
            ELSE WorkflowEdges(p, Tail(edges))

\* convert_workflow_to_project(workflow, input_data), main.py:150-211;
\* input_data is given by the ids it has a value for.
convert_workflow_to_project(nodes, edges, input_data) ==
    LET built == WorkflowNodes(EmptyProject(GreetingBlocks), nodes, input_data)
    IN IF built.raised THEN built ELSE WorkflowEdges(built.proj, edges)

\* ------------------------------------------------------------ responses
\* The answer of add_connection, main.py:580-589.
AddConnectionResponse(p, s, ok, t, ik) ==
    IF s \notin p.blocks \/ t \notin p.blocks THEN "block_not_found"
    ELSE IF ~ConnectValid(p, s, ok, t, ik) THEN "value_error"
    ELSE "connected"

\* The answer of remove_connection, main.py:606-625.
RemoveConnectionResponse(p, s, ok, t, ik) ==
    IF s \notin p.blocks \/ t \notin p.blocks THEN "block_not_found"
    ELSE IF ToRemove(p, s, ok, t, ik) = <<>> THEN "connection_not_found"
    ELSE "disconnected"

\* The HTTP status that goes with an answer.
StatusOf(r) ==
    CASE r \in {"block_not_found", "connection_not_found"} -> 404
      [] r \in {"value_error", "no_workflow"} -> 400
      [] r = "exception" -> 500
      [] OTHER -> 200

IsError(r) == r # "none" /\ StatusOf(r) # 200

\* ------------------------------------------------------------- start-up
\* python main.py, main.py:961-963: the demo project is built and, when that
\* returns, the application is run.
main ==
    /\ booted = "no"
    /\ pc = "idle"
    /\ IF setup_demo_project.raised
       THEN booted' = "raised" /\ UNCHANGED current_project
       ELSE booted' = "main" /\ current_project' = setup_demo_project.proj
    /\ UNCHANGED <<runVars, removed, response>>

\* The module imported by a server: current_project is the empty project of
\* main.py:113.
serve ==
    /\ booted = "no"
    /\ pc = "idle"
    /\ booted' = "served"
    /\ UNCHANGED <<current_project, runVars, removed, response>>

\* ------------------------------------------------------------ endpoints
\* POST /api/block/add, main.py:487-500 (a ReactBlock), and proj.add_block.
add_block(b) ==
    /\ Serving
    /\ b \notin current_project.blocks
    /\ current_project' = Project_add_block(current_project, b)
    /\ removed' = IF current_project' = current_project THEN removed ELSE "none"
    /\ response' = "added"
    /\ UNCHANGED <<booted, runVars>>

\* Block b has a connector bound from another block and one to another block.
HasBoth(p, b) ==
    /\ \E k \in DOMAIN p.input_connectors[b] :
         Bound(p.input_connectors[b][k]) /\ p.input_connectors[b][k][1].source_block # b
    /\ \E c \in Range(OutgoingOf(p, b)) : c.target_block # b

\* The endpoint deleting the entry of the blocks dict itself, the connectors
\* of the neighbours left as they are.
remove_block_unexcised(b) ==
    /\ Serving
    /\ IF b \in current_project.blocks
       THEN /\ current_project' = [current_project EXCEPT !.blocks = @ \ {b}]
            /\ removed' = IF HasBoth(current_project, b) THEN b ELSE "none"
            /\ response' = "removed"
       ELSE /\ response' = "block_not_found"
            /\ UNCHANGED <<current_project, removed>>
    /\ UNCHANGED <<booted, runVars>>

\* POST /api/block/remove, main.py:509-522.
remove_block(b) ==
    /\ Serving
    /\ IF b \in current_project.blocks
       THEN /\ current_project' = Project_remove_block(current_project, b)
            /\ removed' = IF HasBoth(current_project, b) THEN b ELSE "none"
            /\ response' = "removed"
       ELSE /\ response' = "block_not_found"
            /\ UNCHANGED <<current_project, removed>>
    /\ UNCHANGED <<booted, runVars>>

\* POST /api/connection/add, main.py:565-589.
add_connection(s, ok, t, ik) ==
    /\ Serving
    /\ ConnectorCount(current_project) < MaxConnectors
    /\ current_project' = AddConnection(current_project, s, ok, t, ik)
    /\ removed' = IF current_project' = current_project THEN removed ELSE "none"
    /\ response' = AddConnectionResponse(current_project, s, ok, t, ik)
    /\ UNCHANGED <<booted, runVars>>

\* POST /api/connection/remove, main.py:591-625.
remove_connection(s, ok, t, ik) ==
    /\ Serving
    /\ current_project' = RemoveConnection(current_project, s, ok, t, ik)
    /\ removed' = IF current_project' = current_project THEN removed ELSE "none"
    /\ response' = RemoveConnectionResponse(current_project, s, ok, t, ik)
    /\ UNCHANGED <<booted, runVars>>

\* POST /api/update_input, main.py:421-435.
update_react_input(b, value) ==
    /\ Serving
    /\ b \in current_project.blocks
    /\ block_type(b) = "REACT"
    /\ current_project' = Block_set_user_input(current_project, b, value)
    /\ removed' = IF current_project' = current_project THEN removed ELSE "none"
    /\ response' = "updated"
    /\ UNCHANGED <<booted, runVars>>

\* block.update_ports(inputs_list, outputs_list) on a block of the project,
\* react_block.py:127-167.  No endpoint answers for it.
update_ports(b, inputs_list, outputs_list) ==
    /\ Serving
    /\ b \in current_project.blocks
    /\ block_type(b) = "REACT"
    /\ current_project' = ReactBlock_update_ports(current_project, b, inputs_list, outputs_list)
    /\ removed' = IF current_project' = current_project THEN removed ELSE "none"
    /\ response' = "none"
    /\ UNCHANGED <<booted, runVars>>

\* logic_block.inputs["val_a"] = "Hello ", main.py:933.
set_operand(b) ==
    /\ Serving
    /\ b \in current_project.blocks
    /\ block_type(b) = "LOGIC"
    /\ current_project' = Block_set_input(current_project, b, "val_a", Hello)
    /\ removed' = IF current_project' = current_project THEN removed ELSE "none"
    /\ UNCHANGED <<booted, runVars, response>>

\* logic_block.connect("result", api_block, "params", modifier=to_params),
\* main.py:956.
connect_with_modifier(s, t) ==
    /\ Serving
    /\ s \in current_project.blocks
    /\ t \in current_project.blocks
    /\ ConnectorCount(current_project) < MaxConnectors + 1
    /\ current_project' = Block_connect(current_project, s, "result", t, "params", "to_params")
    /\ removed' = IF current_project' = current_project THEN removed ELSE "none"
    /\ UNCHANGED <<booted, runVars, response>>

\* ------------------------------------------------ one call of execute_graph
\* The call and its discovery loop, main.py:36-58.
execute_graph(starts, method) ==
    /\ Serving
    /\ LET found == Discovery(current_project, starts, method)
       IN /\ all_blocks' = found.all_blocks
          /\ pc' = IF found.terminated THEN "ordering" ELSE "discovering"
    /\ start_blocks' = starts
    /\ response' = "none"
    /\ UNCHANGED <<current_project, booted, in_degree, graph, ready_queue,
                   results, execution_order, removed>>

\* POST /api/execute with a workflow_id, main.py:259-271: the stored workflow
\* is converted and run from all of its blocks.  The blocks execute_graph
\* works on are those of the converted project; a connect that raises is
\* answered 500, main.py:278-281.
run_graph(nodes, edges, input_data, method) ==
    /\ Serving
    /\ LET converted == convert_workflow_to_project(nodes, edges, input_data)
           found == Discovery(converted.proj, nodes, method)
       IN IF converted.raised
          THEN /\ response' = "exception"
               /\ UNCHANGED <<current_project, pc, all_blocks, start_blocks>>
          ELSE /\ current_project' = converted.proj
               /\ all_blocks' = found.all_blocks
               /\ pc' = IF found.terminated THEN "ordering" ELSE "discovering"
               /\ start_blocks' = nodes
               /\ response' = "none"
    /\ UNCHANGED <<booted, in_degree, graph, ready_queue, results,
                   execution_order, removed>>

\* main.py:60-77.  A set is iterated in an order the program does not fix.
build_dependencies ==
    /\ pc = "ordering"
    /\ in_degree' = BuildInDegree(current_project, all_blocks)
    /\ graph' = BuildGraph(current_project, all_blocks)
    /\ ready_queue' \in Perms(InitiallyReady(BuildInDegree(current_project, all_blocks)))
    /\ pc' = "running"
    /\ UNCHANGED <<current_project, booted, all_blocks, results, execution_order,
                   start_blocks, removed, response>>

RunState ==
    [p |-> current_project, in_degree |-> in_degree, graph |-> graph,
     ready_queue |-> ready_queue, results |-> results,
     execution_order |-> execution_order]

\* One iteration of while ready_queue, main.py:79-101.
run_block ==
    /\ pc = "running"
    /\ ready_queue # <<>>
    /\ \E answer \in Outcomes(Head(ready_queue)) :
         LET rs == RunStep(RunState, answer)
         IN /\ current_project' = rs.p
            /\ in_degree' = rs.in_degree
            /\ ready_queue' = rs.ready_queue
            /\ results' = rs.results
            /\ execution_order' = rs.execution_order
    /\ UNCHANGED <<booted, pc, all_blocks, graph, start_blocks, removed, response>>

\* fetch_inputs reads a source port that is gone: the lookup raises, and
\* run_graph answers 500, main.py:279-281.
run_raises ==
    /\ pc = "running"
    /\ ready_queue # <<>>
    /\ MissingSource(current_project, Head(ready_queue))
    /\ pc' = "idle"
    /\ all_blocks' = {}
    /\ in_degree' = <<>>
    /\ graph' = <<>>
    /\ ready_queue' = <<>>
    /\ results' = <<>>
    /\ execution_order' = <<>>
    /\ start_blocks' = <<>>
    /\ response' = "exception"
    /\ UNCHANGED <<current_project, booted, removed>>

\* The loop ends and the report is returned, main.py:103-106.
return_report ==
    /\ pc = "running"
    /\ ready_queue = <<>>
    /\ pc' = "done"
    /\ UNCHANGED <<current_project, booted, all_blocks, in_degree, graph,
                   ready_queue, results, execution_order, start_blocks, removed,
                   response>>

\* run_graph answers with the report, main.py:277; the locals are gone.
respond ==
    /\ pc = "done"
    /\ pc' = "idle"
    /\ all_blocks' = {}
    /\ in_degree' = <<>>
    /\ graph' = <<>>
    /\ ready_queue' = <<>>
    /\ results' = <<>>
    /\ execution_order' = <<>>
    /\ start_blocks' = <<>>
    /\ response' = "report"
    /\ UNCHANGED <<current_project, booted, removed>>

\* ------------------------------------------------------ the editor
\* Port names a request can carry: the registered ones and the two the demo
\* uses.
OutNames == {"onTextEntered", "user_input"}
InNames == {"title", "display_data"}

StartLists == SeqsUpTo(current_project.blocks, MaxStarts)

Next ==
    \/ main
    \/ serve
    \/ \E b \in EditorBlocks : add_block(b)
    \/ \E b \in EditorBlocks : remove_block(b)
    \/ \E s \in EditorBlocks, t \in EditorBlocks, ok \in OutNames, ik \in InNames :
         add_connection(s, ok, t, ik)
    \/ \E s \in EditorBlocks, t \in EditorBlocks, ok \in OutNames, ik \in InNames :
         remove_connection(s, ok, t, ik)
    \/ \E starts \in StartLists, method \in {"bfs", "dfs"} :
         execute_graph(starts, method)
    \/ build_dependencies
    \/ run_block
    \/ return_report
    \/ respond

Spec == Init /\ [][Next]_vars

\* ------------------------------------------------- the greeting scenario
\* The edges of the scenario without a modifier, on the ports the blocks
\* register: the UI block's output into the second operand, and the response
\* into the display block.
GreetingEdges ==
    {<<"input_block", "onTextEntered", "logic_block", "val_b">>,
     <<"api_block", "response_json", "display_block", "title">>}

\* The edge that carries the modifier.
ModifierEdge == <<"logic_block", "result", "api_block", "params">>

\* start_blocks = list(current_project.blocks.values()), main.py:257; the
\* set discovered does not depend on the order of the list.
ProjectBlocks ==
    SelectSeq(<<"input_block", "logic_block", "api_block", "display_block">>,
              LAMBDA b : b \in current_project.blocks)

NextGreeting ==
    \/ main
    \/ serve
    \/ \E b \in GreetingBlocks : add_block(b)
    \/ update_react_input("input_block", World)
    \/ set_operand("logic_block")
    \/ \E e \in GreetingEdges : add_connection(e[1], e[2], e[3], e[4])
    \/ connect_with_modifier("logic_block", "api_block")
    \/ \E e \in GreetingEdges \cup {ModifierEdge} :
         remove_connection(e[1], e[2], e[3], e[4])
    \/ \E method \in {"bfs", "dfs"} : execute_graph(ProjectBlocks, method)
    \/ build_dependencies
    \/ run_block
    \/ return_report
    \/ respond

SpecGreeting == InitGreeting /\ [][NextGreeting]_vars

\* --------------------------------------------------- the port editor
\* The lists update_ports is called with: empty, the default port named,
\* and one further port.
InputLists == {<<>>, <<Item("title", "number")>>, <<Item("display_data", "any")>>}
OutputLists == {<<>>, <<Item("user_input", "any")>>}

NextPorts ==
    \/ serve
    \/ \E b \in PortBlocks : add_block(b)
    \/ \E b \in PortBlocks : remove_block(b)
    \/ \E b \in PortBlocks, inputs_list \in InputLists, outputs_list \in OutputLists :
         update_ports(b, inputs_list, outputs_list)
    \/ update_react_input("input_block", World)
    \/ \E ok \in OutNames, ik \in InNames :
         add_connection("input_block", ok, "display_block", ik)
    \/ \E ok \in OutNames, ik \in InNames :
         remove_connection("input_block", ok, "display_block", ik)
    \/ \E method \in {"bfs", "dfs"} : execute_graph(ProjectBlocks, method)
    \/ build_dependencies
    \/ run_block
    \/ run_raises
    \/ return_report
    \/ respond

SpecPorts == InitPorts /\ [][NextPorts]_vars

\* ------------------------------------------------ the stored workflows
\* The node lists of a stored workflow: one or two blocks.
MaxNodes == 2
MaxEdges == 2
NodeLists == {nodes \in SeqsUpTo(GreetingBlocks, MaxNodes) :
                 Cardinality(Range(nodes)) = Len(nodes)}

\* The edges of a stored workflow: between the Logic and the API block on
\* the ports they have, and one naming the port a missing target_input
\* defaults to, main.py:202.
WorkflowEdgeSet ==
    {<<"logic_block", "result", "api_block", "params">>,
     <<"api_block", "response_json", "logic_block", "val_b">>,
     <<"logic_block", "result", "api_block", "input">>}
EdgeLists == {<<>>} \cup SeqsUpTo(WorkflowEdgeSet, MaxEdges)

\* The input_data of a request: none, or a value for the UI block.
InputData == {{}, {"input_block"}}

NextWorkflow ==
    \/ serve
    \/ \E nodes \in NodeLists, edges \in EdgeLists,
          input_data \in InputData, method \in {"bfs", "dfs"} :
         run_graph(nodes, edges, input_data, method)
    \/ build_dependencies
    \/ run_block
    \/ return_report
    \/ respond

SpecWorkflow == InitGreeting /\ [][NextWorkflow]_vars

\* ------------------------------------------------ the threaded server
\* app.run(debug=True, port=5001), main.py:963: the development server
\* handles each request in a thread of its own, and no handler takes a lock.
\* A request of the editor is handled while execute_graph is in its loops.
InRun == booted \in {"main", "served"} /\ pc \in {"ordering", "running"}

\* POST /api/connection/add, main.py:565-589, handled during a run.
add_connection_in_run(s, ok, t, ik) ==
    /\ InRun
    /\ ConnectorCount(current_project) < MaxConnectors
    /\ current_project' = AddConnection(current_project, s, ok, t, ik)
    /\ response' = AddConnectionResponse(current_project, s, ok, t, ik)
    /\ UNCHANGED <<booted, runVars, removed>>

\* POST /api/connection/remove, main.py:591-625, handled during a run.
remove_connection_in_run(s, ok, t, ik) ==
    /\ InRun
    /\ current_project' = RemoveConnection(current_project, s, ok, t, ik)
    /\ response' = RemoveConnectionResponse(current_project, s, ok, t, ik)
    /\ UNCHANGED <<booted, runVars, removed>>

\* POST /api/block/add, main.py:460-506, handled during a run.
add_block_in_run(b) ==
    /\ InRun
    /\ b \notin current_project.blocks
    /\ current_project' = Project_add_block(current_project, b)
    /\ response' = "added"
    /\ UNCHANGED <<booted, runVars, removed>>

NextThreaded ==
    \/ serve
    \/ \E b \in PortBlocks : add_block(b)
    \/ \E s \in PortBlocks, t \in PortBlocks :
         add_connection(s, "onTextEntered", t, "title")
    \/ \E s \in PortBlocks, t \in PortBlocks :
         remove_connection(s, "onTextEntered", t, "title")
    \/ \E b \in PortBlocks : add_block_in_run(b)
    \/ \E s \in PortBlocks, t \in PortBlocks :
         add_connection_in_run(s, "onTextEntered", t, "title")
    \/ \E s \in PortBlocks, t \in PortBlocks :
         remove_connection_in_run(s, "onTextEntered", t, "title")
    \/ \E starts \in StartLists, method \in {"bfs", "dfs"} :
         execute_graph(starts, method)
    \/ build_dependencies
    \/ run_block
    \/ return_report
    \/ respond

SpecThreaded == InitPorts /\ [][NextThreaded]_vars

\* The loops of execute_graph keep running: the interpreter does not stop in
\* the middle of a call.
FairSpec ==
    /\ Spec
    /\ WF_vars(build_dependencies)
    /\ WF_vars(run_block)
    /\ WF_vars(return_report)

\* ------------------------------------------------------------ vocabulary
\* How often block b is in the log, and in the results.
Times(b) == Cardinality({i \in 1..Len(execution_order) : execution_order[i] = name(b)})
Entries(b) == Cardinality({i \in 1..Len(results) : results[i].id = b})

\* The connectors between blocks of the discovered set.
InternalConnectors ==
    UNION {{c \in Range(OutgoingOf(current_project, a)) : c.target_block \in all_blocks} :
             a \in all_blocks}

\* The discovered subgraph has a cycle: a non-empty set of blocks each of
\* which has a connector from a block of the set.
Cyclic ==
    \E S \in (SUBSET all_blocks) \ {{}} :
        \A b \in S : \E c \in InternalConnectors :
            c.target_block = b /\ c.source_block \in S

\* The blocks forward-reachable from the start list: the least set that holds
\* the start blocks and is closed under the connectors.
ClosedFrom(S) ==
    /\ Range(start_blocks) \subseteq S
    /\ \A a \in S : \A c \in Range(OutgoingOf(current_project, a)) : c.target_block \in S

Reachable ==
    {b \in Universe(current_project) :
        \A S \in SUBSET Universe(current_project) : ClosedFrom(S) => b \in S}

\* ------------------------------------------------------------------- C1
\* C1: when the subgraph reachable from the start blocks is acyclic, the
\* returned execution_order is a topological order: for every connector
\* a -> b between blocks of the reachable set, both are in the log and every
\* entry of a comes before every entry of b.
C1_TopologicalOrder ==
    (pc = "done" /\ ~Cyclic) =>
        \A c \in InternalConnectors :
            /\ Times(c.source_block) > 0
            /\ Times(c.target_block) > 0
            /\ \A i, j \in 1..Len(execution_order) :
                 (/\ execution_order[i] = name(c.source_block)
                  /\ execution_order[j] = name(c.target_block)) => i < j

\* A finished run over a chain a -> b -> c of three blocks.
C1_Witness ==
    /\ pc = "done"
    /\ ~Cyclic
    /\ Len(execution_order) = 3
    /\ \E c1, c2 \in InternalConnectors :
         /\ c1.target_block = c2.source_block
         /\ c1.source_block # c2.target_block

\* ------------------------------------------------------------------- C2
\* C2: in one call of execute_graph every block is run at most once and has
\* one result entry per run; the blocks discovered are exactly the blocks
\* reachable from the start list; and on an acyclic subgraph the finished
\* run has run each of them exactly once, whatever the start list repeats
\* and however many connectors join two blocks.
C2_ExactlyOnce ==
    /\ \A b \in Universe(current_project) :
         /\ Times(b) <= 1
         /\ Entries(b) = Times(b)
         /\ Times(b) > 0 => b \in all_blocks
    /\ Len(execution_order) = Len(results)
    /\ pc \in {"ordering", "running", "done"} => all_blocks = Reachable
    /\ (pc = "done" /\ ~Cyclic) => \A b \in all_blocks : Times(b) = 1

\* A finished run whose start list names one block twice and whose two
\* blocks are joined by two connectors.
C2_Witness ==
    /\ pc = "done"
    /\ Len(start_blocks) = 2
    /\ start_blocks[1] = start_blocks[2]
    /\ Len(execution_order) = 2
    /\ \E a \in all_blocks : \E i, j \in 1..Len(OutgoingOf(current_project, a)) :
         /\ i < j
         /\ OutgoingOf(current_project, a)[i].target_block # a
         /\ OutgoingOf(current_project, a)[i].target_block =
              OutgoingOf(current_project, a)[j].target_block

\* ------------------------------------------------------------------- C3
\* C3: every call of execute_graph terminates, also on a graph with a cycle
\* reachable from a start block: a call that has begun reaches the return
\* of its report.
C3_Terminates == (pc \in {"discovering", "ordering", "running"}) ~> (pc = "done")

\* A call that returned on a subgraph with a cycle.
C3_Witness ==
    /\ pc = "done"
    /\ Cyclic
    /\ \E b \in all_blocks : Times(b) = 0

\* ------------------------------------------------------------------- C4
\* The blocks a report names: by name in its execution_order, by identifier
\* in its block_results.  The report has no other field.
NamedIn(report) ==
    {b \in Universe(current_project) :
        \/ name(b) \in Range(report.execution_order)
        \/ \E i \in 1..Len(report.block_results) : report.block_results[i].id = b}

\* C4: when the reachable subgraph has a cycle, the returned report names the
\* reachable blocks that never reached in-degree zero; the run does not end
\* with a shortened log and nothing said of the blocks left out.
C4_RemainderReported ==
    (pc = "done" /\ Cyclic) =>
        /\ {b \in all_blocks : in_degree[b] > 0} # {}
        /\ {b \in all_blocks : in_degree[b] > 0}
             \subseteq NamedIn(Report(execution_order, results))

\* ------------------------------------------------------------------- C8
\* A block of the project holds a connector that references block b.
References(p, b) ==
    \E x \in p.blocks \ {b} :
        \/ \E c \in Range(OutgoingOf(p, x)) : c.target_block = b
        \/ \E k \in DOMAIN p.input_connectors[x] :
             Bound(p.input_connectors[x][k]) /\ p.input_connectors[x][k][1].source_block = b

\* C8: a block that is not in the project, in particular one removed while it
\* had an incoming and an outgoing connector, is referenced by no connector
\* of a remaining block, in no outgoing list and in no binding, and a run is
\* never discovering it, executing it or reporting it.
C8_RemovedBlockGone ==
    /\ removed # "none" => removed \notin current_project.blocks
    /\ \A b \in Universe(current_project) \ current_project.blocks :
         /\ ~References(current_project, b)
         /\ b \notin all_blocks
         /\ Times(b) = 0
         /\ Entries(b) = 0

\* The run after the removal of a block that joined two others has finished:
\* both former neighbours were run.
C8_Witness ==
    /\ removed # "none"
    /\ pc = "done"
    /\ Len(execution_order) = 2
    /\ Cardinality(all_blocks) = 2

\* ------------------------------------------------------------------- C9
RECURSIVE RunAll(_)
\* The running loop to its end, for blocks whose execute takes no answer.
RunAll(rs) ==
    IF rs.ready_queue = <<>> THEN rs ELSE RunAll(RunStep(rs, <<>>))

\* The set discovered in project p from a start list.
Discovered(p, starts, method) == Discovery(p, starts, method).all_blocks

\* A whole call of execute_graph on project p with the ready queue starting
\* in the order ready.
RunOf(p, starts, method, ready) ==
    RunAll([p |-> p,
            in_degree |-> BuildInDegree(p, Discovered(p, starts, method)),
            graph |-> BuildGraph(p, Discovered(p, starts, method)),
            ready_queue |-> ready,
            results |-> <<>>,
            execution_order |-> <<>>])

\* The project after the connection is removed and added again.
RoundTrip(p, c) ==
    AddConnection(
        RemoveConnection(p, c.source_block, c.source_output_key,
                         c.target_block, c.target_input_key),
        c.source_block, c.source_output_key, c.target_block, c.target_input_key)

\* The connectors that are in their source's list and bound at their target.
LiveConnectors(p) ==
    {c \in UNION {Range(OutgoingOf(p, a)) : a \in p.blocks} :
        /\ c.target_block \in p.blocks
        /\ p.input_connectors[c.target_block][c.target_input_key] = <<c>>}

\* C9: removing an existing connection and adding it again with the same
\* endpoints changes nothing a run shows: from every start list, the run
\* after the round trip has the same execution order and gives the target
\* input the same value as the run before it.
C9_RoundTripRestores ==
    pc = "idle" =>
        \A c \in LiveConnectors(current_project) :
            \A starts \in StartLists, method \in {"bfs", "dfs"} :
                \A ready \in Perms(InitiallyReady(BuildInDegree(current_project,
                                     Discovered(current_project, starts, method)))) :
                    LET before == RunOf(current_project, starts, method, ready)
                        after == RunOf(RoundTrip(current_project, c), starts, method, ready)
                    IN /\ after.execution_order = before.execution_order
                       /\ after.p.inputs[c.target_block][c.target_input_key] =
                            before.p.inputs[c.target_block][c.target_input_key]

\* ------------------------------------------------------------------- C5
\* The result entry of block b.
EntryOf(b) == results[CHOOSE i \in 1..Len(results) : results[i].id = b]

C6_UnboundKept ==
    [][pc = "running" =>
         \A b \in Universe(current_project) :
             \A k \in DOMAIN current_project.inputs[b] :
                 ~Bound(current_project.input_connectors[b][k]) =>
                     current_project'.inputs[b][k] = current_project.inputs[b][k]]_vars

\* The Logic block was run after its second operand was disconnected: the
\* operand still holds the value fetched before, the first operand the value
\* set by hand, and the result was computed from both.
C6_Witness ==
    /\ pc = "done"
    /\ Times("logic_block") = 1
    /\ ~Bound(current_project.input_connectors["logic_block"]["val_b"])
    /\ ~Bound(current_project.input_connectors["logic_block"]["val_a"])
    /\ current_project.inputs["logic_block"]["val_b"] = World
    /\ current_project.inputs["logic_block"]["val_a"] = Hello
    /\ current_project.outputs["logic_block"]["result"] = Hello \o World

\* ------------------------------------------------------------------- C7
\* C7: when a block has been run whose input is bound to a connector with
\* the modifier, the input holds the source's output wrapped once,
\* {"message": output}; the source's output, in the block and in its report
\* entry, is the unwrapped value its execute computed.
C7_ModifierOnce ==
    \A t \in all_blocks : \A k \in DOMAIN current_project.input_connectors[t] :
        (/\ Times(t) = 1
         /\ Bound(current_project.input_connectors[t][k])
         /\ current_project.input_connectors[t][k][1].modifier = "to_params") =>
            LET c == current_project.input_connectors[t][k][1]
                src == c.source_block
                out == current_project.outputs[src][c.source_output_key]
            IN /\ current_project.inputs[t][k] = <<"{message:">> \o out \o <<"}">>
               /\ Times(src) = 1
               /\ Entries(src) = 1
               /\ EntryOf(src).outputs[c.source_output_key] = out
               /\ out = current_project.inputs[src]["val_a"] \o current_project.inputs[src]["val_b"]

\* The API block was run with "Hello World" crossing the modifier edge.
C7_Witness ==
    /\ pc = "done"
    /\ Times("api_block") = 1
    /\ Bound(current_project.input_connectors["api_block"]["params"])
    /\ current_project.outputs["logic_block"]["result"] = Hello \o World
    /\ current_project.inputs["api_block"]["params"] =
         <<"{message:", "Hello ", "World", "}">>
    /\ EntryOf("logic_block").outputs["result"] = Hello \o World

\* ------------------------------------------------------------------ C10
\* The scenario is wired and seeded: "World" in the UI block's output, bound
\* to the second operand; "Hello " in the first; the result bound to params
\* through the modifier.
GreetingWired ==
    /\ current_project.outputs["input_block"]["onTextEntered"] = World
    /\ current_project.inputs["logic_block"]["val_a"] = Hello
    /\ ~Bound(current_project.input_connectors["logic_block"]["val_a"])
    /\ current_project.input_connectors["logic_block"]["val_b"] =
         <<Connector("input_block", "onTextEntered", "logic_block", "val_b", "none")>>
    /\ current_project.input_connectors["api_block"]["params"] =
         <<Connector("logic_block", "result", "api_block", "params", "to_params")>>

\* C10: the demo project is built, every connect call of it naming ports the
\* blocks have; and a finished run of the greeting scenario ran the UI block
\* before the Logic block and the Logic block before the API block, with the
\* result exactly "Hello World" and params {"message": "Hello World"}.
C10_GreetingScenario ==
    /\ booted # "raised"
    /\ (pc = "done" /\ GreetingWired) =>
         /\ \E i, j, k \in 1..Len(execution_order) :
              /\ i < j
              /\ j < k
              /\ execution_order[i] = name("input_block")
              /\ execution_order[j] = name("logic_block")
              /\ execution_order[k] = name("api_block")
         /\ current_project.outputs["logic_block"]["result"] = <<"Hello ", "World">>
         /\ current_project.inputs["api_block"]["params"] =
              <<"{message:", "Hello ", "World", "}">>

\* ------------------------------------------------------------------ C11
\* Both blocks of the request are in the project and one of the two ports it
\* names is not a port of its block.
PortAbsent(p, s, ok, t, ik) ==
    /\ s \in p.blocks
    /\ t \in p.blocks
    /\ (ok \notin DOMAIN p.outputs[s] \/ ik \notin DOMAIN p.inputs[t])

\* C11: a connect or a disconnect naming an output port the source block
\* does not have, or an input port the target block does not have, is
\* answered with an error and leaves the project (ports, values, connectors
\* of every block) as it was.
C11_AbsentPortRejected ==
    [][\A s \in PortBlocks, t \in PortBlocks, ok \in OutNames, ik \in InNames :
         (/\ PortAbsent(current_project, s, ok, t, ik)
          /\ (add_connection(s, ok, t, ik) \/ remove_connection(s, ok, t, ik)))
         => (IsError(response') /\ current_project' = current_project)]_vars

\* ------------------------------------------------------------------ C12
\* An edge of the list names a block that is not among the nodes.
EdgeToAbsent(nodes, edges) ==
    \E i \in 1..Len(edges) :
        edges[i][1] \notin Range(nodes) \/ edges[i][3] \notin Range(nodes)

\* C12: a connect, a disconnect or a remove naming a block that is not in
\* the project, and a stored workflow with an edge naming a block that is not
\* among its nodes, is answered with an error and changes nothing: the
\* request ends there, with no run.
C12_AbsentBlockReported ==
    [][/\ \A s \in EditorBlocks, t \in EditorBlocks, ok \in OutNames, ik \in InNames :
            (/\ s \notin current_project.blocks \/ t \notin current_project.blocks
             /\ (add_connection(s, ok, t, ik) \/ remove_connection(s, ok, t, ik)))
            => (IsError(response') /\ current_project' = current_project)
       /\ \A b \in EditorBlocks :
            (b \notin current_project.blocks /\ remove_block(b))
            => (IsError(response') /\ current_project' = current_project)
       /\ \A nodes \in NodeLists, edges \in EdgeLists,
             input_data \in InputData, method \in {"bfs", "dfs"} :
            (EdgeToAbsent(nodes, edges) /\ run_graph(nodes, edges, input_data, method))
            => (IsError(response') /\ pc' = "idle")]_vars

\* ------------------------------------------------------------------ C13
\* The connector bound at input port k of block b.
Binding(p, b, k) == p.input_connectors[b][k][1]

\* C13: every input port has at most one bound incoming connector; a connect
\* to an input port that is already bound makes the new connector the only
\* binding of that port; and a block that is executed reads each bound input
\* from the source port of the connector bound at that moment.
C13_SoleBinding ==
    /\ [](\A b \in Universe(current_project) :
            \A k \in DOMAIN current_project.input_connectors[b] :
                Len(current_project.input_connectors[b][k]) <= 1)
    /\ [][/\ \A s \in PortBlocks, t \in PortBlocks, ok \in OutNames, ik \in InNames :
               (/\ s \in current_project.blocks
                /\ t \in current_project.blocks
                /\ ConnectValid(current_project, s, ok, t, ik)
                /\ Bound(current_project.input_connectors[t][ik])
                /\ add_connection(s, ok, t, ik))
               => current_project'.input_connectors[t][ik] =
                    <<Connector(s, ok, t, ik, "none")>>
          /\ (run_block /\ ~MissingSource(current_project, Head(ready_queue)))
               => \A k \in DOMAIN current_project.inputs[Head(ready_queue)] :
                    (/\ k \in DOMAIN current_project.input_connectors[Head(ready_queue)]
                     /\ Bound(current_project.input_connectors[Head(ready_queue)][k]))
                    => current_project'.inputs[Head(ready_queue)][k] =
                         current_project.outputs
                             [Binding(current_project, Head(ready_queue), k).source_block]
                             [Binding(current_project, Head(ready_queue), k).source_output_key]
         ]_vars

\* An input port connected a second time, from another port, has been read
\* in a finished run: it holds the value of the port connected last.
C13_Witness ==
    /\ pc = "done"
    /\ "user_input" \in DOMAIN current_project.outputs["input_block"]
    /\ current_project.output_connectors["input_block"]["user_input"] =
         <<Connector("input_block", "user_input", "display_block", "title", "none")>>
    /\ current_project.output_connectors["input_block"]["onTextEntered"] =
         <<Connector("input_block", "onTextEntered", "display_block", "title", "none")>>
    /\ current_project.input_connectors["display_block"]["title"] =
         <<Connector("input_block", "onTextEntered", "display_block", "title", "none")>>
    /\ current_project.outputs["input_block"]["onTextEntered"] = World
    /\ current_project.outputs["input_block"]["user_input"] = <<>>
    /\ current_project.inputs["display_block"]["title"] = World
    /\ Entries("display_block") = 1

\* ------------------------------------------------------------------ C14
\* Connector c of a source's list is the binding of its target's port, and
\* the port is one the target has.
BoundAtTarget(p, c) ==
    /\ c.target_block \in p.blocks
    /\ c.target_input_key \in DOMAIN p.inputs[c.target_block]
    /\ c.target_input_key \in DOMAIN p.input_connectors[c.target_block]
    /\ p.input_connectors[c.target_block][c.target_input_key] = <<c>>

\* Connector c bound at a target is in the list of its source's port, and the
\* port is one the source has.
ListedAtSource(p, c) ==
    /\ c.source_block \in p.blocks
    /\ c.source_output_key \in DOMAIN p.outputs[c.source_block]
    /\ c.source_output_key \in DOMAIN p.output_connectors[c.source_block]
    /\ c \in Range(p.output_connectors[c.source_block][c.source_output_key])

\* C14: the two sides of every connector agree: a connector is in its source
\* block's output_connectors list exactly when it is the bound incoming
\* connector of its target block's input port, and both ports exist.
C14_TwoSided ==
    \A b \in current_project.blocks :
        /\ \A c \in Range(OutgoingOf(current_project, b)) :
               BoundAtTarget(current_project, c)
        /\ \A k \in DOMAIN current_project.input_connectors[b] :
               Bound(current_project.input_connectors[b][k])
               => /\ k \in DOMAIN current_project.inputs[b]
                  /\ ListedAtSource(current_project, Binding(current_project, b, k))

\* ------------------------------------------------------------------ C15
\* The project after a disconnect that removes the first matching connector
\* of the source's list, and only that one.
FirstMatchRemoved(p, s, ok, t, ik) ==
    [p EXCEPT
        !.output_connectors[s][ok] = RemoveFirst(@, Head(ToRemove(p, s, ok, t, ik))),
        !.input_connectors[t][ik] = NoConnector]

\* C15: a disconnect of (source output port, target block, target input
\* port) removes exactly one connector, the first matching one of the
\* source's list, and clears the target's binding for that port; when no
\* connector matches it answers "not found" and changes nothing.
C15_DisconnectOne ==
    [][\A s \in EditorBlocks, t \in EditorBlocks, ok \in OutNames, ik \in InNames :
         (/\ s \in current_project.blocks
          /\ t \in current_project.blocks
          /\ remove_connection(s, ok, t, ik))
         => IF ToRemove(current_project, s, ok, t, ik) = <<>>
            THEN /\ response' = "connection_not_found"
                 /\ current_project' = current_project
            ELSE /\ response' = "disconnected"
                 /\ current_project' = FirstMatchRemoved(current_project, s, ok, t, ik)]_vars

\* ------------------------------------------------------------------ C16
\* C16: a ReactBlock, once constructed, always has the input port 'title'
\* and the output port 'onTextEntered', and a call of update_ports, whatever
\* its lists, leaves the values of both as they were.
C16_DefaultPortsKept ==
    /\ [](\A b \in Universe(current_project) :
            /\ "title" \in DOMAIN current_project.inputs[b]
            /\ "onTextEntered" \in DOMAIN current_project.outputs[b])
    /\ [][\A b \in PortBlocks, inputs_list \in InputLists, outputs_list \in OutputLists :
            update_ports(b, inputs_list, outputs_list)
            => /\ "title" \in DOMAIN current_project'.inputs[b]
               /\ current_project'.inputs[b]["title"] = current_project.inputs[b]["title"]
               /\ "onTextEntered" \in DOMAIN current_project'.outputs[b]
               /\ current_project'.outputs[b]["onTextEntered"] =
                    current_project.outputs[b]["onTextEntered"]]_vars

\* update_ports has removed the port 'user_input' of a block whose default
\* output holds a value the user entered: the binding made from the removed
\* port is still at the target, the default ports and their values are there.
C16_Witness ==
    /\ "input_block" \in current_project.blocks
    /\ DOMAIN current_project.outputs["input_block"] = {"onTextEntered"}
    /\ current_project.outputs["input_block"]["onTextEntered"] = World
    /\ current_project.inputs["input_block"]["title"] = <<"Interactive Form">>
    /\ Bound(current_project.input_connectors["display_block"]["title"])
    /\ Binding(current_project, "display_block", "title").source_output_key = "user_input"

\* ------------------------------------------------------------------ C17
\* Every connector the project holds: in a list of a source, or bound at a
\* target.
ConnectorsHeld(p) ==
    UNION {Range(OutgoingOf(p, a)) : a \in p.blocks}
    \cup {Binding(p, a, k) : <<a, k>> \in
            {ak \in p.blocks \X (InNames \cup DOMAIN ReactInputs) :
                /\ ak[2] \in DOMAIN p.input_connectors[ak[1]]
                /\ Bound(p.input_connectors[ak[1]][ak[2]])}}

\* C17: update_ports removes every non-default port that is not in the new
\* list, registers every key of the new list that was absent and keeps the
\* values of the ports that stay; afterwards the input keys are the new
\* input keys and 'title', the output keys are the new output keys and
\* 'onTextEntered', and no connector of the project references a removed
\* port.
C17_PortsSynchronised ==
    [][\A b \in PortBlocks, inputs_list \in InputLists, outputs_list \in OutputLists :
         update_ports(b, inputs_list, outputs_list)
         => LET gone_inputs == DOMAIN current_project.inputs[b]
                                 \ DOMAIN current_project'.inputs[b]
                gone_outputs == DOMAIN current_project.outputs[b]
                                  \ DOMAIN current_project'.outputs[b]
            IN /\ DOMAIN current_project'.inputs[b] = Keys(inputs_list) \cup DEFAULT_INPUTS
               /\ DOMAIN current_project'.outputs[b] = Keys(outputs_list) \cup DEFAULT_OUTPUTS
               /\ \A k \in DOMAIN current_project'.inputs[b] :
                    current_project'.inputs[b][k] =
                        IF k \in DOMAIN current_project.inputs[b]
                        THEN current_project.inputs[b][k] ELSE <<>>
               /\ \A c \in ConnectorsHeld(current_project') :
                    /\ ~(c.target_block = b /\ c.target_input_key \in gone_inputs)
                    /\ ~(c.source_block = b /\ c.source_output_key \in gone_outputs)]_vars

\* ------------------------------------------------------------------ C18
\* The number of connectors into block b held by the blocks of set S, each
\* connector of a list counted once.
IncomingFrom(S, b) ==
    Cardinality({ai \in S \X (1..ConnectorCount(current_project)) :
                    /\ ai[2] <= Len(OutgoingOf(current_project, ai[1]))
                    /\ OutgoingOf(current_project, ai[1])[ai[2]].target_block = b})

\* C18: with either method the blocks execute_graph discovers are exactly
\* the blocks reachable from the start blocks along outgoing connectors, the
\* start blocks included; the set is closed under outgoing connectors, so
\* every connector leaving a discovered block is one dependency edge, and
\* the in-degree a block starts with is the number of connectors into it
\* from discovered blocks.
C18_DiscoveryIsReachability ==
    /\ pc \in {"ordering", "running", "done"} =>
         /\ all_blocks = Reachable
         /\ Range(start_blocks) \subseteq all_blocks
         /\ \A a \in all_blocks : \A c \in Range(OutgoingOf(current_project, a)) :
              c.target_block \in all_blocks
    /\ pc \in {"running", "done"} =>
         /\ DOMAIN graph = all_blocks
         /\ \A a \in all_blocks : graph[a] = Targets(current_project, a)
    /\ (pc = "running" /\ execution_order = <<>>) =>
         /\ DOMAIN in_degree = all_blocks
         /\ \A b \in all_blocks : in_degree[b] = IncomingFrom(all_blocks, b)

\* A call from one start block that has just built its dependencies: a
\* second block is reached over two connectors and a third block of the
\* project is not reached.
C18_Witness ==
    /\ pc = "running"
    /\ execution_order = <<>>
    /\ Len(start_blocks) = 1
    /\ \E b \in all_blocks : b # start_blocks[1] /\ in_degree[b] = 2
    /\ current_project.blocks \ all_blocks # {}

\* ------------------------------------------------------------------ C19
RECURSIVE InsertionOrder(_, _, _, _, _)
\* The order in which the discovery loop of main.py:39-58 adds the blocks to
\* the set all_blocks.
InsertionOrder(p, method, w, order, left) ==
    IF w = <<>> \/ left = 0 THEN order
    ELSE LET st == IF method = "dfs" THEN DfsStep(p, w, Range(order))
                   ELSE BfsStep(p, w, Range(order))
             added == st.all_blocks \ Range(order)
         IN InsertionOrder(p, method, st.work,
                           IF added = {} THEN order
                           ELSE Append(order, CHOOSE b \in added : TRUE),
                           left - 1)

\* The orders in which the two methods fill the set.
Filled(p, starts, method) ==
    InsertionOrder(p, method, starts, <<>>, DiscoveryBound(p, starts))

\* The report of a whole call.
ReportOf(p, starts, method, ready) ==
    Report(RunOf(p, starts, method, ready).execution_order,
           RunOf(p, starts, method, ready).results)

\* C19: for the same graph and the same start list, execute_graph with
\* method 'bfs' and with method 'dfs' return the same execution_order and the
\* same block_results.  The set all_blocks is iterated in one order when it
\* was filled in one order; filled in two different orders it may be iterated
\* in two different orders.
C19_MethodIrrelevant ==
    pc = "idle" =>
        \A starts \in StartLists :
            \A rb \in Perms(InitiallyReady(BuildInDegree(current_project,
                               Discovered(current_project, starts, "bfs")))),
               rd \in Perms(InitiallyReady(BuildInDegree(current_project,
                               Discovered(current_project, starts, "dfs")))) :
                (Filled(current_project, starts, "bfs") = Filled(current_project, starts, "dfs")
                    => rb = rd)
                => ReportOf(current_project, starts, "bfs", rb) =
                     ReportOf(current_project, starts, "dfs", rd)

\* ------------------------------------------------------------------ C20
\* C20: the log names exactly the executed blocks in the order they
\* executed, and block_results has exactly one entry per executed block,
\* under the block's id, with its name, its variant and the outputs the block
\* has from this run; the log and the result map have the same number of
\* entries and no block that was not executed has an entry.
C20_ReportShape ==
    /\ Len(results) = Len(execution_order)
    /\ \A i \in 1..Len(results) :
         /\ results[i].id \in all_blocks
         /\ execution_order[i] = name(results[i].id)
         /\ results[i].name = name(results[i].id)
         /\ results[i].type = block_type(results[i].id)
         /\ results[i].outputs = current_project.outputs[results[i].id]
         /\ \A j \in 1..Len(results) : results[j].id = results[i].id => j = i
    /\ pc = "done" =>
         /\ Report(execution_order, results).execution_order =
              [i \in 1..Len(results) |-> name(results[i].id)]
         /\ \A b \in Universe(current_project) :
              Entries(b) = IF Times(b) > 0 THEN 1 ELSE 0

\* A finished run of the four blocks: the Logic block's entry holds the
\* greeting it produced and the API block's entry the answer it got.
C20_Witness ==
    /\ pc = "done"
    /\ Len(execution_order) = 4
    /\ EntryOf("logic_block").outputs["result"] = Hello \o World
    /\ EntryOf("logic_block").type = "LOGIC"
    /\ EntryOf("api_block").outputs["response_json"] = <<"response">>
    /\ EntryOf("display_block").name = "Result Display"

\* ------------------------------------------------------------------ C21
\* C21: the container is mutated only between runs: while a call of
\* execute_graph on the blocks of current_project is in progress, no request
\* changes the set of blocks or a connector of the project.
C21_MutatedBetweenRuns ==
    [][pc # "idle" =>
         /\ current_project'.blocks = current_project.blocks
         /\ current_project'.output_connectors = current_project.output_connectors
         /\ current_project'.input_connectors = current_project.input_connectors]_vars

\* ------------------------------------------------------------------ C22
\* C22: when a stored workflow is converted with an input_data map, the
\* conversion of a REACT node completes without error; every REACT block
\* whose id is a key of the map has an input holding the mapped value before
\* the run starts, and every other block has the inputs it is constructed
\* with.
C22_InputDataSeeded ==
    [][\A nodes \in NodeLists, input_data \in InputData, method \in {"bfs", "dfs"} :
         (/\ \E i \in 1..Len(nodes) : block_type(nodes[i]) = "REACT"
          /\ run_graph(nodes, <<>>, input_data, method))
         => /\ response' # "exception"
            /\ current_project'.blocks = Range(nodes)
            /\ \A b \in Range(nodes) :
                 IF block_type(b) = "REACT" /\ b \in input_data
                 THEN \E k \in DOMAIN current_project'.inputs[b] :
                        current_project'.inputs[b][k] = World
                 ELSE current_project'.inputs[b] = InitInputs(b)]_vars

\* ------------------------------------------------------------------ C23
\* The discovered blocks one connector away from block b.
Succs(b) == {c.target_block : c \in {x \in InternalConnectors : x.source_block = b}}

\* The discovered blocks one or more connectors away from block b.
Descendants(b) ==
    {x \in all_blocks :
        \A S \in SUBSET all_blocks :
            (Succs(b) \subseteq S /\ \A y \in S : Succs(y) \subseteq S) => x \in S}

\* Block b is a member of a cycle of the discovered subgraph.
OnCycle(b) == b \in all_blocks /\ b \in Descendants(b)

\* C23 as stated: when the run ends, every reachable block that was not
\* executed is a member of a cycle of the reachable subgraph, and no member
\* of a cycle is ever executed.
C23_RemainderIsCycles ==
    /\ \A b \in all_blocks : OnCycle(b) => Times(b) = 0
    /\ pc = "done" => \A b \in all_blocks : Times(b) = 0 => OnCycle(b)

\* C23 amended: when the run ends, the reachable blocks that were not
\* executed are exactly the members of cycles and the blocks that can be
\* reached from a member of a cycle; no member of a cycle is ever executed.
C23_RemainderBehindCycles ==
    /\ \A b \in all_blocks : OnCycle(b) => Times(b) = 0
    /\ pc = "done" =>
         \A b \in all_blocks :
             Times(b) = 0 <=>
                 (OnCycle(b) \/ \E a \in all_blocks : OnCycle(a) /\ b \in Descendants(a))

\* A finished run that executed one block and left two: a block with a
\* connector to itself, and a block behind it that is on no cycle.
C23_Witness ==
    /\ pc = "done"
    /\ Len(execution_order) = 1
    /\ \E a \in all_blocks, b \in all_blocks :
         /\ OnCycle(a)
         /\ ~OnCycle(b)
         /\ b \in Descendants(a)
         /\ Times(b) = 0

\* ------------------------------------------------------------------ C24
\* Sequence s is the beginning of sequence t.
IsPrefix(s, t) == Len(s) <= Len(t) /\ SubSeq(t, 1, Len(s)) = s

\* C24: ready blocks are executed in FIFO order.  A discovered block is in
\* the ready queue or already executed exactly when its in-degree is zero;
\* no block enters the queue twice; and an iteration of the running loop
\* executes the block at the head of the queue, keeps the blocks behind it in
\* their order and puts the blocks that become ready behind them.
C24_Fifo ==
    /\ [](pc \in {"running", "done"} =>
            \A b \in all_blocks :
               /\ Times(b) + CountIn(ready_queue, b) <= 1
               /\ (in_degree[b] = 0) <=> (Times(b) + CountIn(ready_queue, b) = 1))
    /\ [][run_block =>
            /\ execution_order' = Append(execution_order, name(Head(ready_queue)))
            /\ IsPrefix(Tail(ready_queue), ready_queue')
            /\ \A i \in 1..Len(ready_queue') :
                 i >= Len(ready_queue) =>
                    /\ in_degree[ready_queue'[i]] > 0
                    /\ in_degree'[ready_queue'[i]] = 0]_vars

\* A finished run of three blocks: the third became ready when the first was
\* executed, while the second was already waiting in the queue.
C24_Witness ==
    /\ pc = "done"
    /\ Len(results) = 3
    /\ \E c \in InternalConnectors :
         /\ c.source_block = results[1].id
         /\ c.target_block = results[3].id
    /\ \A c \in InternalConnectors : c.target_block # results[2].id

\* ------------------------------------------------------------------ C25
\* The orders in which the set all_blocks of the call in progress can be
\* iterated for the initial ready queue, main.py:74.  The blocks of a
\* converted workflow are new objects in every request, and the order of a
\* set of objects follows their hashes.
ReadyOrders == Perms(InitiallyReady(BuildInDegree(current_project, all_blocks)))

\* The log of the call in progress when its ready queue starts as ready.
LogFrom(ready) ==
    RunAll([p |-> current_project,
            in_degree |-> BuildInDegree(current_project, all_blocks),
            graph |-> BuildGraph(current_project, all_blocks),
            ready_queue |-> ready,
            results |-> <<>>,
            execution_order |-> <<>>]).execution_order

\* C25: two runs of execute_graph on the same graph with the same start list
\* and the same method produce the same execution_order, also when several
\* blocks have in-degree zero at the start of the run: the call that has
\* discovered its blocks has one log it can return.
C25_Deterministic ==
    pc = "ordering" =>
        \A first \in ReadyOrders, second \in ReadyOrders :
            LogFrom(first) = LogFrom(second)

\* ------------------------------------------------------------------ C26
\* C26: values are pulled only from blocks that have already run: in any
\* run, from any start list, when a block is executed the source block of
\* every connector bound at one of its inputs is already in the log of that
\* run.
C26_PulledAfterRun ==
    [][run_block =>
         \A k \in DOMAIN current_project.input_connectors[Head(ready_queue)] :
             Bound(current_project.input_connectors[Head(ready_queue)][k]) =>
                 Times(Binding(current_project, Head(ready_queue), k).source_block) = 1]_vars

\* ------------------------------------------------------------------ C27
\* C27: update_ports leaves every port that is present and in the new list
\* untouched: its value, its metadata and the connectors attached to it are
\* after the call what they were before, also when the item of the new list
\* gives the key another data type.
C27_ListedPortsUntouched ==
    [][\A b \in PortBlocks, inputs_list \in InputLists, outputs_list \in OutputLists :
         update_ports(b, inputs_list, outputs_list)
         => /\ \A k \in DOMAIN current_project.inputs[b] \cap Keys(inputs_list) :
                 /\ k \in DOMAIN current_project'.inputs[b]
                 /\ current_project'.inputs[b][k] = current_project.inputs[b][k]
                 /\ current_project'.input_meta[b][k] = current_project.input_meta[b][k]
                 /\ current_project'.input_connectors[b][k] =
                      current_project.input_connectors[b][k]
            /\ \A k \in DOMAIN current_project.outputs[b] \cap Keys(outputs_list) :
                 /\ k \in DOMAIN current_project'.outputs[b]
                 /\ current_project'.outputs[b][k] = current_project.outputs[b][k]
                 /\ current_project'.output_meta[b][k] = current_project.output_meta[b][k]
                 /\ current_project'.output_connectors[b][k] =
                      current_project.output_connectors[b][k]
            /\ \A x \in Universe(current_project) \ {b} :
                 /\ current_project'.inputs[x] = current_project.inputs[x]
                 /\ current_project'.input_connectors[x] =
                      current_project.input_connectors[x]
                 /\ current_project'.output_connectors[x] =
                      current_project.output_connectors[x]]_vars

\* The last call was update_ports: the port 'title' of display_block, which
\* the lists name with the data type 'number', still has the data type
\* 'string', and its port 'display_data' is still bound to the connector
\* from input_block.
C27_Witness ==
    /\ pc = "idle"
    /\ response = "none"
    /\ "display_data" \in DOMAIN current_project.inputs["display_block"]
    /\ current_project.input_meta["display_block"]["display_data"] = "any"
    /\ Bound(current_project.input_connectors["display_block"]["display_data"])
    /\ Binding(current_project, "display_block", "display_data").source_output_key
         = "user_input"
    /\ current_project.input_meta["display_block"]["title"] = "string"

\* ------------------------------------------------------------------ C28
\* C28: removing the connection (a.out -> t.in) changes nothing but that
\* connection: when t.in has been rebound to another source block b, the
\* removal of a -> t.in leaves the binding of t.in to b as it was, and b's
\* connector stays in b's list and bound at t.
C28_RebindSurvivesRemoval ==
    [][\A s \in EditorBlocks, t \in EditorBlocks, ok \in OutNames, ik \in InNames :
         ( /\ remove_connection(s, ok, t, ik)
           /\ t \in current_project.blocks
           /\ ik \in DOMAIN current_project.input_connectors[t]
           /\ Bound(current_project.input_connectors[t][ik])
           /\ Binding(current_project, t, ik).source_block # s
           /\ ListedAtSource(current_project, Binding(current_project, t, ik)) )
         => /\ current_project'.input_connectors[t][ik] =
                 current_project.input_connectors[t][ik]
            /\ ListedAtSource(current_project', Binding(current_project, t, ik))
            /\ BoundAtTarget(current_project', Binding(current_project, t, ik))]_vars

\* ------------------------------------------------------------------ C29
\* C29: update_ports is idempotent: for every block state and every pair of
\* lists, calling update_ports a second time with the same lists leaves the
\* block's ports, values, metadata and connectors as the first call left
\* them.
C29_Idempotent ==
    \A b \in PortBlocks, inputs_list \in InputLists, outputs_list \in OutputLists :
        LET once == ReactBlock_update_ports(current_project, b, inputs_list, outputs_list)
        IN ReactBlock_update_ports(once, b, inputs_list, outputs_list) = once

\* A block with values, a port beyond the default ones and connectors on
\* both sides, on which a call of update_ports changes something.
C29_Witness ==
    /\ PortBlocks \subseteq current_project.blocks
    /\ current_project.outputs["input_block"]["onTextEntered"] = World
    /\ "user_input" \in DOMAIN current_project.outputs["input_block"]
    /\ Len(current_project.output_connectors["input_block"]["user_input"]) = 1
    /\ "display_data" \in DOMAIN current_project.inputs["display_block"]
    /\ Bound(current_project.input_connectors["display_block"]["display_data"])
    /\ ReactBlock_update_ports(current_project, "input_block", <<>>, <<>>) # current_project
    /\ ReactBlock_update_ports(current_project, "display_block", <<>>, <<>>) # current_project

\* ------------------------------------------------------ port visibility
\* Block.toggle_input_visibility(key): flips the membership of the key in
\* hidden_inputs; a key the block does not have changes nothing.
Block_toggle_input_visibility(p, b, key) ==
    IF key \notin DOMAIN p.inputs[b] THEN p
    ELSE [p EXCEPT !.hidden_inputs[b] =
            IF key \in @ THEN @ \ {key} ELSE @ \cup {key}]

\* Block.toggle_output_visibility(key), likewise on hidden_outputs.
Block_toggle_output_visibility(p, b, key) ==
    IF key \notin DOMAIN p.outputs[b] THEN p
    ELSE [p EXCEPT !.hidden_outputs[b] =
            IF key \in @ THEN @ \ {key} ELSE @ \cup {key}]

\* POST /api/block/toggle_visibility, main.py:437-458.
ToggleVisibility(p, b, key, io_type) ==
    IF b \notin p.blocks THEN p
    ELSE IF io_type = "input" THEN Block_toggle_input_visibility(p, b, key)
    ELSE IF io_type = "output" THEN Block_toggle_output_visibility(p, b, key)
    ELSE p

ToggleVisibilityResponse(p, b, io_type) ==
    IF b \notin p.blocks THEN "block_not_found"
    ELSE IF io_type \in {"input", "output"} THEN "updated"
    ELSE "invalid_type"

toggle_visibility(b, key, io_type) ==
    /\ Serving
    /\ current_project' = ToggleVisibility(current_project, b, key, io_type)
    /\ removed' = IF current_project' = current_project THEN removed ELSE "none"
    /\ response' = ToggleVisibilityResponse(current_project, b, io_type)
    /\ UNCHANGED <<booted, runVars>>

\* The port lists of a node of GET /api/graph, main.py:649-652.
GraphNode(p, b) ==
    [inputs |-> DOMAIN p.inputs[b],
     outputs |-> DOMAIN p.outputs[b],
     hidden_inputs |-> p.hidden_inputs[b],
     hidden_outputs |-> p.hidden_outputs[b]]

\* The values of "type" a request carries: the two known ones and another.
IoTypes == {"input", "output", "other"}

\* The editor toggling ports and synchronising the port lists of its UI
\* blocks.
NextVisibility ==
    \/ serve
    \/ \E b \in PortBlocks : add_block(b)
    \/ \E b \in PortBlocks : remove_block(b)
    \/ \E b \in PortBlocks, key \in InNames \cup OutNames, io_type \in IoTypes :
         toggle_visibility(b, key, io_type)
    \/ \E b \in PortBlocks, inputs_list \in InputLists, outputs_list \in OutputLists :
         update_ports(b, inputs_list, outputs_list)

SpecVisibility == InitPorts /\ [][NextVisibility]_vars

\* ------------------------------------------------------------------ C30
\* C30: after any sequence of visibility toggles and update_ports calls the
\* hidden sets name only existing ports: in the graph structure sent to the
\* editor, hidden_inputs is a subset of the node's input keys and
\* hidden_outputs a subset of its output keys.
C30_HiddenPortsExist ==
    \A b \in current_project.blocks :
        /\ GraphNode(current_project, b).hidden_inputs
             \subseteq GraphNode(current_project, b).inputs
        /\ GraphNode(current_project, b).hidden_outputs
             \subseteq GraphNode(current_project, b).outputs

====
